---- MODULE Spec2Model ----
(***************************************************************************)
(* Model of the seisei front-end's event fetchers: CombinedGameEvents      *)
(* (src/unnamed/part_000) and PlayerEvents (src/unnamed/part_001).         *)
(*                                                                         *)
(* Two specifications share the definitions of the chunk loop:             *)
(*   SpecChunk  the chunk loop alone, run on bounded (startBlock,          *)
(*              latestBlock) inputs, recording the windows it queries;     *)
(*   Spec       one mounted view (combined or player) with its effect,     *)
(*              timer, fetch cycles and the provider's answers.            *)
(***************************************************************************)
EXTENDS Integers, Sequences, FiniteSets, TLC

VARIABLES
    \* ---- SpecChunk: one run of the chunk loop
    startBlock,       \* parameter startBlock
    latestBlock,      \* parameter latestBlock
    chunkIndex,       \* the loop variable i
    windows,          \* the <<fromBlock, toBlock>> of each getLogs call, in order
    chunkPc,          \* "loop" | "done" ("off" under Spec)
    \* ---- Spec: one view
    view,             \* "combined" (part_000) | "player" (part_001)
    currentAccount,   \* useAccount().address (NoAccount = undefined)
    isConnected,      \* useAccount().isConnected
    phase,            \* "init" (rendered, effect not yet run) | "mounted" | "unmounted"
    effect,           \* number of effect runs so far; the current effect's id
    isMounted,        \* per effect: its closure's isMounted flag
    pollingInterval,  \* per effect: TRUE while its setInterval is armed
    closure,          \* per effect: the currentAccount its closure captured
    events,           \* useState events
    loading,          \* useState loading
    error,            \* useState error
    cycles,           \* per started cycle: its position and locals
    nCycles           \* number of cycles started so far

chunkVars == <<startBlock, latestBlock, chunkIndex, windows, chunkPc>>
viewVars == <<view, currentAccount, isConnected, phase, effect, isMounted,
              pollingInterval, closure, events, loading, error, cycles,
              nCycles>>
vars == <<chunkVars, viewVars>>

(***************************************************************************)
(* Program constants.                                                      *)
(***************************************************************************)
TOTAL_BLOCKS_TO_CHECK == 2000
MAX_CHUNK_SIZE == 450
MAX_RESULTS_COMBINED == 50
MAX_RESULTS_PLAYER == 20

(***************************************************************************)
(* Bounds of the model.                                                    *)
(***************************************************************************)
MaxStartBlock == 2      \* SpecChunk: startBlock in 0..MaxStartBlock
MaxLatestBlock == 2001  \* SpecChunk: latestBlock in startBlock..MaxLatestBlock
MaxEffects == 2         \* Spec: effect runs (mount and dependency changes)
MaxCycles == 2          \* Spec: fetch cycles started in one run

(***************************************************************************)
(* Arithmetic of JavaScript numbers on the integers used here.             *)
(***************************************************************************)
Max(a, b) == IF a >= b THEN a ELSE b

\* Math.ceil(a / b) for an integer a and b > 0 (\div rounds down).
MathCeilDiv(a, b) == -((-a) \div b)

(***************************************************************************)
(* The chunk loop's arithmetic (identical in both files).                  *)
(***************************************************************************)
\* const startBlock = Math.max(latestBlock - TOTAL_BLOCKS_TO_CHECK, 0)
StartBlockOf(latest) == Max(latest - TOTAL_BLOCKS_TO_CHECK, 0)

\* const totalBlocksToScan = latestBlock - startBlock;
\* const chunksNeeded = Math.ceil(totalBlocksToScan / MAX_CHUNK_SIZE);
ChunksNeeded(start, latest) == MathCeilDiv(latest - start, MAX_CHUNK_SIZE)

\* chunkStart = latestBlock - (i * MAX_CHUNK_SIZE) - MAX_CHUNK_SIZE;
\* fromBlock = Math.max(chunkStart, startBlock)
FromBlock(i, start, latest) ==
    Max(latest - (i * MAX_CHUNK_SIZE) - MAX_CHUNK_SIZE, start)

\* chunkEnd = latestBlock - (i * MAX_CHUNK_SIZE); toBlock = chunkEnd
ToBlock(i, latest) == latest - (i * MAX_CHUNK_SIZE)

\* The loop condition i < chunksNeeded.
LoopContinues(i, start, latest) == i < ChunksNeeded(start, latest)

(***************************************************************************)
(* SpecChunk: the chunk loop of fetchEventsForContract / fetchRollEvents   *)
(* run alone on a bounded range, recording every window it queries.        *)
(***************************************************************************)
NoAccount == <<>>
NoError == "null"

InitChunk ==
    /\ startBlock \in 0..MaxStartBlock
    /\ latestBlock \in startBlock..MaxLatestBlock
    /\ chunkIndex = 0
    /\ windows = <<>>
    /\ chunkPc = "loop"
    /\ view = "combined"
    /\ currentAccount = NoAccount
    /\ isConnected = FALSE
    /\ phase = "init"
    /\ effect = 0
    /\ isMounted = <<>>
    /\ pollingInterval = <<>>
    /\ closure = <<>>
    /\ events = <<>>
    /\ loading = TRUE
    /\ error = NoError
    /\ cycles = <<>>
    /\ nCycles = 0

\* One iteration of the for loop: the getLogs call of chunk i, then i++.
ChunkQuery ==
    /\ chunkPc = "loop"
    /\ LoopContinues(chunkIndex, startBlock, latestBlock)
    /\ windows' = Append(windows,
                         <<FromBlock(chunkIndex, startBlock, latestBlock),
                           ToBlock(chunkIndex, latestBlock)>>)
    /\ chunkIndex' = chunkIndex + 1
    /\ UNCHANGED <<startBlock, latestBlock, chunkPc, viewVars>>

\* The loop condition fails: the loop is left.
ChunkExit ==
    /\ chunkPc = "loop"
    /\ ~LoopContinues(chunkIndex, startBlock, latestBlock)
    /\ chunkPc' = "done"
    /\ UNCHANGED <<startBlock, latestBlock, chunkIndex, windows, viewVars>>

NextChunk == ChunkQuery \/ ChunkExit

SpecChunk == InitChunk /\ [][NextChunk]_vars

\* The blocks of the inclusive window w = <<fromBlock, toBlock>>.
BlocksOf(w) == w[1]..w[2]

\* The blocks queried by the finished loop.
Queried == UNION {BlocksOf(windows[k]) : k \in 1..Len(windows)}

\* C1: when the loop has finished, the union of the queried windows is exactly
\* the set of blocks startBlock..latestBlock (startBlock = latestBlock included).
C1_WindowsCoverRange ==
    chunkPc = "done" => Queried = startBlock..latestBlock

\* C2: no block lies in two different windows of the same fetch.
C2_WindowsDisjoint ==
    \A j, k \in 1..Len(windows) :
        j # k => BlocksOf(windows[j]) \cap BlocksOf(windows[k]) = {}

\* C3: every queried window holds at most MAX_CHUNK_SIZE blocks:
\* toBlock - fromBlock + 1 <= MAX_CHUNK_SIZE.
C3_WindowAtMostMaxSpan ==
    \A k \in 1..Len(windows) :
        windows[k][2] - windows[k][1] + 1 <= MAX_CHUNK_SIZE

\* C4: for startBlock = 0 and latestBlock = 2000 the finished loop has issued
\* exactly the five queries [1550,2000], [1100,1549], [650,1099], [200,649],
\* [0,199], in this order.
C4_ExampleWindows ==
    (chunkPc = "done" /\ startBlock = 0 /\ latestBlock = 2000) =>
        windows = << <<1550, 2000>>, <<1100, 1549>>, <<650, 1099>>,
                     <<200, 649>>, <<0, 199>> >>

(***************************************************************************)
(* Spec: data.  Strings that are lower-cased are sequences of characters,  *)
(* so that toLowerCase is computed, not assumed.                           *)
(***************************************************************************)
Games == {"dice", "coinflip"}
Effects == 1..MaxEffects
Cycles == 1..MaxCycles

\* The fetch tasks of one cycle: fetchEventsForContract for both contracts in
\* the combined view, the inline loop on CONTRACT_ADDRESS in the player view.
TasksOf(v) == IF v = "combined" THEN Games ELSE {"dice"}

MAX_RESULTS(v) ==
    IF v = "combined" THEN MAX_RESULTS_COMBINED ELSE MAX_RESULTS_PLAYER

ErrorMessage == "Failed to fetch Sei EVM events"

\* String.prototype.toLowerCase on the alphabet used here.
LowerChar(ch) == CASE ch = "A" -> "a" [] ch = "B" -> "b" [] OTHER -> ch
ToLowerCase(s) == [k \in 1..Len(s) |-> LowerChar(s[k])]

\* Wallet addresses (mixed case, as wagmi reports them).
Account1 == <<"a", "B">>
Account2 == <<"B", "b">>
Accounts == {Account1, Account2}

\* The values useAccount() can give for <<address, isConnected>>.
AccountStates == {<<NoAccount, FALSE>>} \cup {<<a, TRUE>> : a \in Accounts}

\* The block heights getBlockNumber answers with: 0 (no chunk), 1 (one chunk)
\* and one that needs two chunks.
ShallowHeights == {0, 1}
DeepHeight == MAX_CHUNK_SIZE + 1

\* A log as the provider delivers it.  data is what iface.parseLog makes of
\* its topics and data ("ok": a parsed Roll, "null": parseLog returns null,
\* "throw": parseLog throws); lookup is the provider's answer to the getBlock
\* call made for this log ("ok": a block, "null", "throw": the call rejects).
Log(addr, blk, tx, who, d, l) ==
    [address |-> addr, blockNumber |-> blk, transactionHash |-> tx,
     player |-> who, data |-> d, lookup |-> l]

\* The logs of an ordinary answer: one Roll of the dice contract.
SmallChain == << Log("dice", 1, 1, <<"A", "b">>, "ok", "ok") >>

\* Logs that are passed over (undecodable ones, ones whose block lookup
\* fails) and Rolls of another player, in the order delivered (not sorted).
OddLogs ==
    << Log("dice", 300, 2, <<"A", "B">>, "throw", "ok"),
       Log("coinflip", 400, 3, <<"b", "b">>, "ok", "ok"),
       Log("dice", 200, 4, <<"A", "B">>, "null", "ok"),
       Log("dice", 100, 5, <<"A", "B">>, "ok", "null"),
       Log("dice", 50, 6, <<"a", "b">>, "ok", "throw"),
       Log("dice", 451, 7, <<"b", "B">>, "ok", "ok"),
       Log("coinflip", 450, 8, <<"a", "b">>, "ok", "ok") >>

\* A long answer: the odd logs, then more Rolls of one player than the view
\* shows, on two alternating blocks (so not sorted).
BurstChain(v) ==
    OddLogs \o
    [k \in 1..(MAX_RESULTS(v) + 1) |->
        Log("dice", IF k % 2 = 1 THEN MAX_CHUNK_SIZE ELSE MAX_CHUNK_SIZE + 1,
            100 + k, <<"A", "b">>, "ok", "ok")]

\* provider.getLogs({address, fromBlock, toBlock, topics}) on the logs `chain`.
GetLogsAnswer(chain, addr, from, to) ==
    SelectSeq(chain, LAMBDA l : /\ l.address = addr
                                /\ l.blockNumber >= from
                                /\ l.blockNumber <= to)

\* The object pushed to parsedEvents (amount, choice, outcome, won and
\* timestamp are carried through unchanged and left out here).
ParsedEvent(v, log, gameType) ==
    IF v = "combined"
    THEN [blockNumber |-> log.blockNumber,
          transactionHash |-> log.transactionHash,
          player |-> ToLowerCase(log.player),
          gameType |-> gameType]
    ELSE [blockNumber |-> log.blockNumber,
          transactionHash |-> log.transactionHash,
          player |-> ToLowerCase(log.player)]

\* Mutant of Discards: the filter is left out.
Discards_NoFilter(v, log, acct) == FALSE

\* The player filter: `continue` when it holds.
\*   combined: if (currentAccount && player !== currentAccount.toLowerCase())
\*   player:   if (player !== currentAccount.toLowerCase())
Discards(v, log, acct) ==
    IF v = "combined"
    THEN acct # NoAccount /\ ToLowerCase(log.player) # ToLowerCase(acct)
    ELSE ToLowerCase(log.player) # ToLowerCase(acct)

\* A log the parse loop passes over without awaiting: parseLog returns null,
\* parseLog throws (caught by the inner catch), or the filter discards it.
SkippedSync(v, log, acct) == log.data # "ok" \/ Discards(v, log, acct)

\* Insert e after every element whose blockNumber is >= e's (a stable
\* descending insertion, as the stable Array.prototype.sort orders them).
InsertDesc(s, e) ==
    LET before == {k \in 1..Len(s) : s[k].blockNumber >= e.blockNumber}
        n == Cardinality(before)
    IN SubSeq(s, 1, n) \o <<e>> \o SubSeq(s, n + 1, Len(s))

\* list.sort((a, b) => b.blockNumber - a.blockNumber)
RECURSIVE SortDesc(_)
SortDesc(s) ==
    IF s = <<>> THEN <<>>
    ELSE InsertDesc(SortDesc(SubSeq(s, 1, Len(s) - 1)), s[Len(s)])

\* list.slice(0, n)
Slice(s, n) == SubSeq(s, 1, IF Len(s) < n THEN Len(s) ELSE n)

\* Mutant of SortAndCap: the list is cut but not sorted.
SortAndCap_Unsorted(v, s) == Slice(s, MAX_RESULTS(v))

\* .sort(...).slice(0, MAX_RESULTS)
SortAndCap(v, s) == Slice(SortDesc(s), MAX_RESULTS(v))

(***************************************************************************)
(* Spec: the synchronous segments of one fetch task, from one await to the *)
(* next.  A task is [pc, i, allLogs, idx, parsedEvents]; pc names the await*)
(* it is suspended on ("getLogs", "delay", "getBlock") or how it ended     *)
(* ("resolved": the parse loop finished; "returned": the player view's     *)
(* `if (!isMounted) return` after the chunk loop; "rejected").  `mounted`  *)
(* is the effect's isMounted flag when the segment runs.                   *)
(***************************************************************************)
OffTask ==
    [pc |-> "off", i |-> 0, allLogs |-> <<>>, idx |-> 0, parsedEvents |-> <<>>]

Awaiting(t) == t.pc \in {"getLogs", "delay", "getBlock"}

\* The parse loop from log number `from` on: pass over the logs skipped
\* without an await, and suspend on getBlock for the first other log, or
\* finish the loop.
ParseFrom(v, t, from, acct) ==
    LET cand == {j \in from..Len(t.allLogs) :
                    ~SkippedSync(v, t.allLogs[j], acct)}
    IN IF cand = {}
       THEN [t EXCEPT !.pc = "resolved", !.idx = 0]
       ELSE [t EXCEPT !.pc = "getBlock",
                      !.idx = CHOOSE j \in cand : \A k \in cand : j <= k]

\* What follows the chunk loop: in the player view `if (!isMounted) return`,
\* then in both views the parse loop.
AfterLoop(v, t, acct, mounted) ==
    IF v = "player" /\ ~mounted
    THEN [t EXCEPT !.pc = "returned"]
    ELSE ParseFrom(v, t, 1, acct)

\* The loop head with i already set: `i < chunksNeeded` (combined),
\* `i < chunksNeeded && isMounted` (player), then the getLogs call of chunk i.
LoopHead(v, t, start, latest, acct, mounted) ==
    IF LoopContinues(t.i, start, latest) /\ (v = "player" => mounted)
    THEN [t EXCEPT !.pc = "getLogs"]
    ELSE AfterLoop(v, t, acct, mounted)

\* The task from its start to its first await.
StartTask(v, start, latest, acct, mounted) ==
    LoopHead(v, OffTask, start, latest, acct, mounted)

\* getLogs of chunk i resolved with `logs`: push them, then either await the
\* delay (i < chunksNeeded - 1) or go on with i++ and the loop head.
AfterGetLogs(v, t, logs, start, latest, acct, mounted) ==
    LET t1 == [t EXCEPT !.allLogs = @ \o logs]
    IN IF t.i < ChunksNeeded(start, latest) - 1
       THEN [t1 EXCEPT !.pc = "delay"]
       ELSE LoopHead(v, [t1 EXCEPT !.i = @ + 1], start, latest, acct, mounted)

\* The inter-chunk delay elapsed: i++ and the loop head.
AfterDelay(v, t, start, latest, acct, mounted) ==
    LoopHead(v, [t EXCEPT !.i = @ + 1], start, latest, acct, mounted)

\* Whether the event of the log just looked up is pushed:
\*   combined: if (!block) continue;   player: if (!block || !isMounted) continue;
\* and a getBlock that throws is caught by the inner catch.
Keeps(v, log, mounted) == log.lookup = "ok" /\ (v = "player" => mounted)

\* Mutant of AfterGetBlock: a failed lookup leaves the loop (`break` for
\* `continue`) instead of going on with the next log.
AfterGetBlock_BreaksOnFailure(v, t, gameType, acct, mounted) ==
    LET log == t.allLogs[t.idx]
    IN IF Keeps(v, log, mounted)
       THEN ParseFrom(v, [t EXCEPT !.parsedEvents =
                                      Append(@, ParsedEvent(v, log, gameType))],
                      t.idx + 1, acct)
       ELSE [t EXCEPT !.pc = "resolved", !.idx = 0]

\* getBlock for log number idx settled: push its event or skip it, then go on
\* with the next log.
AfterGetBlock(v, t, gameType, acct, mounted) ==
    LET log == t.allLogs[t.idx]
        t1 == IF Keeps(v, log, mounted)
              THEN [t EXCEPT !.parsedEvents =
                                 Append(@, ParsedEvent(v, log, gameType))]
              ELSE t
    IN ParseFrom(v, t1, t.idx + 1, acct)

(***************************************************************************)
(* Spec: cycles.  A cycle is [pc, eff, latestBlock, task]; pc is "idle"    *)
(* (not started), "getBlockNumber" (awaiting it), "fetching" (awaiting the *)
(* fetch tasks) or "done".                                                 *)
(***************************************************************************)
IdleCycle ==
    [pc |-> "idle", eff |-> 0, latestBlock |-> 0,
     task |-> [g \in Games |-> OffTask]]

\* A cycle that has ended.  In the combined view the other task of a cycle
\* whose Promise.all rejected runs on, but its result is dropped with the
\* settled promise and nothing it does reaches the view: it is followed no
\* further.
Tidy(rec) == IF rec.pc # "done" THEN rec ELSE [IdleCycle EXCEPT !.pc = "done"]

\* The events of the cycle's tasks: [...diceEvents, ...coinflipEvents] in the
\* combined view, parsedEvents in the player view.
Gathered(v, rec) ==
    IF v = "combined"
    THEN rec.task["dice"].parsedEvents \o rec.task["coinflip"].parsedEvents
    ELSE rec.task["dice"].parsedEvents

\* The start of fetchAllEvents / fetchRollEvents, up to the await of
\* getBlockNumber: if (isMounted) { setError(null); setLoading(true); }
StartCycle(c, e) ==
    /\ cycles' = [cycles EXCEPT ![c] =
                      [IdleCycle EXCEPT !.pc = "getBlockNumber", !.eff = e]]
    /\ nCycles' = c
    /\ IF isMounted'[e]
       THEN error' = NoError /\ loading' = TRUE
       ELSE UNCHANGED <<error, loading>>

\* Mutant of Fails: the catch block falls back to the events gathered so far.
Fails_PartialFallback(c, rec) ==
    /\ cycles' = [cycles EXCEPT ![c] = Tidy([rec EXCEPT !.pc = "done"])]
    /\ IF isMounted[rec.eff]
       THEN /\ error' = ErrorMessage
            /\ loading' = FALSE
            /\ events' = SortAndCap(view, Gathered(view, rec))
       ELSE UNCHANGED <<error, loading, events>>

\* Mutant of Fails: the catch block sets the error without asking isMounted.
Fails_Unguarded(c, rec) ==
    /\ cycles' = [cycles EXCEPT ![c] = Tidy([rec EXCEPT !.pc = "done"])]
    /\ error' = ErrorMessage
    /\ IF isMounted[rec.eff] THEN loading' = FALSE ELSE UNCHANGED loading
    /\ UNCHANGED events

\* The cycle ends by its catch and finally blocks:
\*   catch: if (isMounted) setError('Failed to fetch Sei EVM events')
\*   finally: if (isMounted) setLoading(false)
Fails(c, rec) ==
    /\ cycles' = [cycles EXCEPT ![c] = Tidy([rec EXCEPT !.pc = "done"])]
    /\ IF isMounted[rec.eff]
       THEN error' = ErrorMessage /\ loading' = FALSE
       ELSE UNCHANGED <<error, loading>>
    /\ UNCHANGED events

\* The cycle ends by a `return` taken because isMounted is false; the finally
\* block then does nothing.
Returns(c, rec) ==
    /\ cycles' = [cycles EXCEPT ![c] = Tidy([rec EXCEPT !.pc = "done"])]
    /\ UNCHANGED <<events, error, loading>>

\* All tasks have finished: the end of the try block and the finally block.
\*   combined: if (!isMounted) return; setEvents(sorted and capped)
\*   player:   if (isMounted) setEvents(sorted and capped)
\*   finally:  if (isMounted) setLoading(false)
Publishes(c, rec) ==
    /\ cycles' = [cycles EXCEPT ![c] = Tidy([rec EXCEPT !.pc = "done"])]
    /\ IF isMounted[rec.eff]
       THEN /\ events' = SortAndCap(view, Gathered(view, rec))
            /\ loading' = FALSE
       ELSE UNCHANGED <<events, loading>>
    /\ UNCHANGED error

\* After a segment of one of its tasks, the cycle `rec` goes on: it returns,
\* publishes, or stays suspended.
GoesOn(c, rec) ==
    IF rec.pc = "fetching" /\ \E g \in TasksOf(view) : rec.task[g].pc = "returned"
    THEN Returns(c, rec)
    ELSE IF rec.pc = "fetching"
            /\ \A g \in TasksOf(view) : rec.task[g].pc = "resolved"
    THEN Publishes(c, rec)
    ELSE /\ cycles' = [cycles EXCEPT ![c] = Tidy(rec)]
         /\ UNCHANGED <<events, error, loading>>

(***************************************************************************)
(* Spec: the effect (useEffect on [currentAccount, isConnected]).          *)
(***************************************************************************)
Init ==
    /\ view \in {"combined", "player"}
    /\ \E st \in AccountStates : currentAccount = st[1] /\ isConnected = st[2]
    /\ phase = "init"
    /\ effect = 0
    /\ isMounted = [e \in Effects |-> FALSE]
    /\ pollingInterval = [e \in Effects |-> FALSE]
    /\ closure = [e \in Effects |-> NoAccount]
    /\ events = <<>>
    /\ loading = TRUE
    /\ error = NoError
    /\ cycles = [c \in Cycles |-> IdleCycle]
    /\ nCycles = 0
    /\ startBlock = 0
    /\ latestBlock = 0
    /\ chunkIndex = 0
    /\ windows = <<>>
    /\ chunkPc = "off"

\* The cleanup of effect e: isMounted = false; clearInterval(pollingInterval).
\* (An effect of the player view that returned early has no cleanup and no
\* flags: its entries are FALSE already.)
CleanupIsMounted(e) ==
    IF e \in Effects THEN [isMounted EXCEPT ![e] = FALSE] ELSE isMounted

CleanupInterval(e) ==
    IF e \in Effects THEN [pollingInterval EXCEPT ![e] = FALSE]
    ELSE pollingInterval

\* The player view's early return: if (!isConnected || !currentAccount)
ReturnsEarly(v, acct, conn) == v = "player" /\ (~conn \/ acct = NoAccount)

\* The cleanup of effect `old` (0: none), then the body of effect e for the
\* rendered <<acct, conn>>.
RunEffect(old, e, acct, conn) ==
    IF ReturnsEarly(view, acct, conn)
    THEN /\ events' = <<>>
         /\ loading' = FALSE
         /\ isMounted' = CleanupIsMounted(old)
         /\ pollingInterval' = CleanupInterval(old)
         /\ UNCHANGED <<error, closure, cycles, nCycles>>
    ELSE /\ nCycles < MaxCycles
         /\ isMounted' = [CleanupIsMounted(old) EXCEPT ![e] = TRUE]
         /\ closure' = [closure EXCEPT ![e] = acct]
         /\ StartCycle(nCycles + 1, e)
         /\ pollingInterval' = [CleanupInterval(old) EXCEPT ![e] = TRUE]
         /\ UNCHANGED events

\* The first effect run, after the first render.
Mount ==
    /\ phase = "init"
    /\ phase' = "mounted"
    /\ effect' = 1
    /\ RunEffect(0, 1, currentAccount, isConnected)
    /\ UNCHANGED <<view, currentAccount, isConnected, chunkVars>>

\* useAccount() reports another <<address, isConnected>>: the component
\* renders again, the previous effect is cleaned up and the effect runs again
\* (one step: React runs the cleanup and the new effect back to back).
AccountChange ==
    /\ phase = "mounted"
    /\ effect < MaxEffects
    /\ \E st \in AccountStates \ {<<currentAccount, isConnected>>} :
        /\ currentAccount' = st[1]
        /\ isConnected' = st[2]
        /\ effect' = effect + 1
        /\ RunEffect(effect, effect + 1, st[1], st[2])
    /\ UNCHANGED <<view, phase, chunkVars>>

\* The component is unmounted: the current effect's cleanup runs.
Unmount ==
    /\ phase = "mounted"
    /\ phase' = "unmounted"
    /\ isMounted' = CleanupIsMounted(effect)
    /\ pollingInterval' = CleanupInterval(effect)
    /\ UNCHANGED <<view, currentAccount, isConnected, effect, closure, events,
                   loading, error, cycles, nCycles, chunkVars>>

\* A tick of effect e's setInterval(fetch..., POLLING_INTERVAL).
Tick(e) ==
    /\ pollingInterval[e]
    /\ nCycles < MaxCycles
    /\ UNCHANGED isMounted
    /\ StartCycle(nCycles + 1, e)
    /\ UNCHANGED <<view, currentAccount, isConnected, phase, effect,
                   pollingInterval, closure, events, chunkVars>>

(***************************************************************************)
(* Spec: the provider settles an await of a cycle.                         *)
(***************************************************************************)
envVars == <<view, currentAccount, isConnected, phase, effect, isMounted,
             pollingInterval, closure, nCycles, chunkVars>>

\* The last cycle of a run, while no other cycle is in flight.  Only such a
\* cycle is given a two-chunk height or an answer longer than the result cap:
\* the chunk loop's delay and the cap are exercised, at every await and
\* against every teardown, without multiplying the interleavings of
\* overlapping cycles.
Quiet(c) ==
    /\ c = MaxCycles
    /\ \A d \in Cycles \ {c} : cycles[d].pc \in {"idle", "done"}

\* The heights getBlockNumber may answer cycle c with.
BlockHeights(c) ==
    IF Quiet(c) THEN ShallowHeights \cup {DeepHeight} ELSE ShallowHeights

\* await provider.getBlockNumber() resolves: if (!isMounted) return; then
\* startBlock and the fetch tasks up to their first await.
GetBlockNumberResolves(c) ==
    /\ cycles[c].pc = "getBlockNumber"
    /\ \E h \in BlockHeights(c) :
        LET rec == cycles[c]
            mounted == isMounted[rec.eff]
            started == [g \in Games |->
                           IF g \in TasksOf(view)
                           THEN StartTask(view, StartBlockOf(h), h,
                                          closure[rec.eff], mounted)
                           ELSE OffTask]
        IN IF ~mounted
           THEN Returns(c, rec)
           ELSE GoesOn(c, [rec EXCEPT !.pc = "fetching",
                                      !.latestBlock = h,
                                      !.task = started])
    /\ UNCHANGED envVars

\* await provider.getBlockNumber() rejects: the outer catch.
GetBlockNumberRejects(c) ==
    /\ cycles[c].pc = "getBlockNumber"
    /\ Fails(c, cycles[c])
    /\ UNCHANGED envVars

\* The cycle after task g's getLogs resolved with the matching logs of `chain`.
WithLogs(c, g, chain) ==
    LET rec == cycles[c]
        t == rec.task[g]
        start == StartBlockOf(rec.latestBlock)
        logs == GetLogsAnswer(chain, g, FromBlock(t.i, start, rec.latestBlock),
                              ToBlock(t.i, rec.latestBlock))
    IN [rec EXCEPT !.task[g] =
            AfterGetLogs(view, t, logs, start, rec.latestBlock,
                         closure[rec.eff], isMounted[rec.eff])]

\* await provider.getLogs(...) of task g resolves.
GetLogsResolves(c, g) ==
    /\ cycles[c].task[g].pc = "getLogs"
    /\ \/ GoesOn(c, WithLogs(c, g, SmallChain))
       \/ /\ Quiet(c)
          /\ Len(WithLogs(c, g, BurstChain(view)).task[g].allLogs)
                > Len(cycles[c].task[g].allLogs)
          /\ GoesOn(c, WithLogs(c, g, BurstChain(view)))
    /\ UNCHANGED envVars

\* await provider.getLogs(...) of task g rejects.  Nothing in the task catches
\* it: the cycle's outer catch runs.
GetLogsRejects(c, g) ==
    /\ cycles[c].task[g].pc = "getLogs"
    /\ Fails(c, [cycles[c] EXCEPT !.task[g].pc = "rejected"])
    /\ UNCHANGED envVars

\* await new Promise(r => setTimeout(r, 100)) of task g resolves.
DelayElapses(c, g) ==
    /\ cycles[c].task[g].pc = "delay"
    /\ LET rec == cycles[c]
       IN GoesOn(c, [rec EXCEPT !.task[g] =
                        AfterDelay(view, @, StartBlockOf(rec.latestBlock),
                                   rec.latestBlock, closure[rec.eff],
                                   isMounted[rec.eff])])
    /\ UNCHANGED envVars

\* await provider.getBlock(log.blockNumber) of task g settles (a block, null,
\* or a rejection caught by the inner catch).
GetBlockSettles(c, g) ==
    /\ cycles[c].task[g].pc = "getBlock"
    /\ LET rec == cycles[c]
       IN GoesOn(c, [rec EXCEPT !.task[g] =
                        AfterGetBlock(view, @, g, closure[rec.eff],
                                      isMounted[rec.eff])])
    /\ UNCHANGED envVars

Next ==
    \/ Mount
    \/ AccountChange
    \/ Unmount
    \/ \E e \in Effects : Tick(e)
    \/ \E c \in Cycles : GetBlockNumberResolves(c)
    \/ \E c \in Cycles : GetBlockNumberRejects(c)
    \/ \E c \in Cycles, g \in Games : GetLogsResolves(c, g)
    \/ \E c \in Cycles, g \in Games : GetLogsRejects(c, g)
    \/ \E c \in Cycles, g \in Games : DelayElapses(c, g)
    \/ \E c \in Cycles, g \in Games : GetBlockSettles(c, g)

Spec == Init /\ [][Next]_vars

(***************************************************************************)
(* Properties of Spec.                                                     *)
(***************************************************************************)
\* The account a cycle filters by, and its effect's liveness flag.
FilterOf(c) == closure[cycles[c].eff]
Live(c) == isMounted[cycles[c].eff]
InFlight(c) == cycles[c].pc \in {"getBlockNumber", "fetching"}

\* The logs a task's parse loop has dealt with so far.
Processed(t) ==
    IF t.pc = "getBlock" THEN SubSeq(t.allLogs, 1, t.idx - 1)
    ELSE IF t.pc = "resolved" THEN t.allLogs
    ELSE <<>>

\* Case-insensitive equality of two addresses.
SamePlayer(a, b) == ToLowerCase(a) = ToLowerCase(b)

\* A log that decodes, passes the filter `acct` and resolves its block.
Good(log, acct) ==
    /\ log.data = "ok"
    /\ acct = NoAccount \/ SamePlayer(log.player, acct)
    /\ log.lookup = "ok"

\* The events of the good logs among `logs`, in their order.
EventsOfGood(v, logs, acct, g) ==
    LET kept == SelectSeq(logs, LAMBDA l : Good(l, acct))
    IN [k \in 1..Len(kept) |-> ParsedEvent(v, kept[k], g)]

\* The list a cycle publishes when every log of its tasks has been dealt with.
EventsOfCycle(v, rec, acct) ==
    IF v = "combined"
    THEN EventsOfGood(v, rec.task["dice"].allLogs, acct, "dice")
            \o EventsOfGood(v, rec.task["coinflip"].allLogs, acct, "coinflip")
    ELSE EventsOfGood(v, rec.task["dice"].allLogs, acct, "dice")

SortedDesc(s) ==
    \A k \in 1..(Len(s) - 1) : s[k].blockNumber >= s[k + 1].blockNumber

\* C5: in every reachable state of both views the display buffer `events` is
\* sorted by block number in non-increasing order and holds at most the
\* view's MAX_RESULTS events (50 combined, 20 player).
C5_EventsSortedAndCapped ==
    /\ SortedDesc(events)
    /\ Len(events) <= MAX_RESULTS(view)

\* C5 witness: the combined view shows a full buffer of 50 events on more than
\* one block, cut from a longer unsorted list.
C5_Witness ==
    /\ view = "combined"
    /\ Len(events) = MAX_RESULTS_COMBINED
    /\ events[1].blockNumber > events[Len(events)].blockNumber

\* C6, the lists of the tasks: with a non-empty filter P every event of
\* parsedEvents has a player equal to P after lower-casing both; with the
\* empty filter every dealt-with log that decodes and resolves its block has
\* its event in parsedEvents, whoever its player is.
C6_ParsedMatchFilter ==
    \A c \in Cycles, g \in Games :
        LET t == cycles[c].task[g]
        IN cycles[c].pc = "fetching" =>
            IF FilterOf(c) # NoAccount
            THEN \A k \in 1..Len(t.parsedEvents) :
                    SamePlayer(t.parsedEvents[k].player, FilterOf(c))
            ELSE Len(t.parsedEvents) =
                    Len(SelectSeq(Processed(t),
                                  LAMBDA l : l.data = "ok" /\ l.lookup = "ok"))

\* C6, the list handed to setEvents: when a live cycle with filter P ends by
\* the last getBlock of its tasks, every event it publishes has player P.
C6_PublishedMatchFilter ==
    \A c \in Cycles, g \in Games :
        (GetBlockSettles(c, g) /\ cycles'[c].pc = "done" /\ Live(c)
            /\ FilterOf(c) # NoAccount)
        => \A k \in 1..Len(events') : SamePlayer(events'[k].player, FilterOf(c))

\* C6: a fetch run with a non-empty player filter P returns only events whose
\* player equals P case-insensitively, whatever the provider delivers; with an
\* empty filter the filter discards nothing.
C6_FilterByPlayer == []C6_ParsedMatchFilter /\ [][C6_PublishedMatchFilter]_vars

\* C6 witness: a task filtering by Account1 has passed over a decodable log of
\* another player and kept a log whose player is spelt in another case.
C6_Witness ==
    \E c \in Cycles, g \in Games :
        LET t == cycles[c].task[g]
        IN /\ cycles[c].pc = "fetching"
           /\ FilterOf(c) = Account1
           /\ t.parsedEvents # <<>>
           /\ \E j \in 1..Len(Processed(t)) :
                /\ t.allLogs[j].data = "ok"
                /\ ~SamePlayer(t.allLogs[j].player, Account1)
           /\ \E j \in 1..Len(Processed(t)) :
                /\ Good(t.allLogs[j], Account1)
                /\ t.allLogs[j].player # Account1

\* C7, one step: a step in which getBlockNumber or a getLogs query of a cycle of a live
\* effect fails ends the cycle, leaves `events` as it is (nothing the cycle
\* fetched is published), sets `error` to the one generic message and leaves
\* `loading` false.
C7_FailureStep ==
    \A c \in Cycles :
        ((GetBlockNumberRejects(c) \/ \E g \in Games : GetLogsRejects(c, g))
            /\ Live(c))
        => /\ events' = events
           /\ error' = ErrorMessage
           /\ loading' = FALSE
           /\ cycles'[c].pc = "done"

\* C7: a failed getBlockNumber or getLogs aborts the whole cycle of a mounted
\* view: every such step is a C7_FailureStep (events untouched, the generic
\* error set, loading false, the cycle over).
C7_FailureAbortsCycle == [][C7_FailureStep]_vars

\* C7 witness: a mounted view shows the events of an earlier cycle together
\* with the error of a later, failed one.
C7_Witness ==
    /\ phase = "mounted"
    /\ isMounted[effect]
    /\ error = ErrorMessage
    /\ ~loading
    /\ events # <<>>

\* C8, the lists of the tasks: at every getBlock await and when the task has
\* resolved, parsedEvents of a live cycle is exactly the events of the
\* dealt-with logs that decode, pass the filter and resolve their block.
C8_ParsedAreTheGoodLogs ==
    \A c \in Cycles, g \in Games :
        LET t == cycles[c].task[g]
        IN (cycles[c].pc = "fetching" /\ Live(c)) =>
            t.parsedEvents = EventsOfGood(view, Processed(t), FilterOf(c), g)

\* C8, the end of the parse loop: a settled getBlock, failed or not, sets no
\* error, and when it ends a live cycle the cycle publishes the events of all
\* its good logs.
C8_LookupStep ==
    \A c \in Cycles, g \in Games :
        GetBlockSettles(c, g) =>
            /\ error' = error
            /\ (cycles'[c].pc = "done" /\ Live(c)) =>
                    events' = SortAndCap(view,
                                  EventsOfCycle(view, cycles[c], FilterOf(c)))

\* C8: a log whose decoding or block lookup fails is skipped, and only that
\* log; the cycle neither aborts nor sets `error` because of it.
C8_FailedLogSkipped == []C8_ParsedAreTheGoodLogs /\ [][C8_LookupStep]_vars

\* C8 witness: a live task has dealt with a log parseLog throws on, one it
\* returns null for, one whose getBlock gave null and one whose getBlock
\* threw, and holds events of logs after them.
C8_Witness ==
    \E c \in Cycles, g \in Games :
        LET t == cycles[c].task[g]
            done == Processed(t)
        IN /\ cycles[c].pc = "fetching" /\ Live(c)
           /\ \E j \in 1..Len(done) : done[j].data = "throw"
           /\ \E j \in 1..Len(done) : done[j].data = "null"
           /\ \E j \in 1..Len(done) :
                done[j].data = "ok" /\ done[j].lookup = "null"
                    /\ (FilterOf(c) = NoAccount
                            \/ SamePlayer(done[j].player, FilterOf(c)))
           /\ \E j \in 1..Len(done) :
                done[j].data = "ok" /\ done[j].lookup = "throw"
                    /\ (FilterOf(c) = NoAccount
                            \/ SamePlayer(done[j].player, FilterOf(c)))
           /\ Len(t.parsedEvents) >= 2

\* C9: at no time are two fetch cycles started by the same effect in flight.
C9_OneCycleInFlight ==
    \A c, d \in Cycles :
        (c # d /\ InFlight(c) /\ InFlight(d))
            => cycles[c].eff # cycles[d].eff

\* C10, one step: a step of a cycle whose effect has been torn down leaves `events`,
\* `error` and `loading` unchanged, at whichever await the cycle was
\* suspended, and every cycle that starts belongs to an effect that is live.
C10_TornDownStep ==
    /\ \A c \in Cycles :
        (cycles'[c] # cycles[c] /\ cycles[c].pc # "idle" /\ ~Live(c))
            => UNCHANGED <<events, error, loading>>
    /\ \A c \in Cycles :
        (cycles[c].pc = "idle" /\ cycles'[c].pc # "idle")
            => /\ isMounted'[cycles'[c].eff]
               /\ pollingInterval'[cycles'[c].eff]

\* C10: once an effect has been torn down, no cycle it started updates
\* `events`, `error` or `loading` again and its timer starts no new cycle:
\* every step is a C10_TornDownStep.
C10_TornDownEffectIsSilent == [][C10_TornDownStep]_vars

\* C10 witness: a cycle of a torn-down effect is still suspended in its parse
\* loop, holding events it parsed.
C10_Witness ==
    \E c \in Cycles :
        /\ cycles[c].pc = "fetching"
        /\ ~Live(c)
        /\ cycles[c].task["dice"].pc = "getBlock"
        /\ cycles[c].task["dice"].parsedEvents # <<>>

\* A step in which every query of cycle c has been answered and the cycle
\* ends: its last await resolves and the end of the try block is reached.
AnsweredCycleEnds(c) ==
    /\ \/ GetBlockNumberResolves(c)
       \/ \E g \in Games : GetLogsResolves(c, g)
       \/ \E g \in Games : DelayElapses(c, g)
       \/ \E g \in Games : GetBlockSettles(c, g)
    /\ cycles'[c].pc = "done"

\* C11, one step: when the cycle started last (later than any cycle that
\* failed) belongs to a live effect, has had all its queries answered and
\* ends, `events` has been replaced by its result and `error` is null, and the
\* interval of the live effect is still armed.
C11_AnsweredStep ==
    \A c \in Cycles :
        (AnsweredCycleEnds(c) /\ Live(c) /\ c = nCycles)
        => /\ error' = NoError
           /\ SortedDesc(events')
           /\ ~loading'
           /\ pollingInterval'[cycles[c].eff]

\* C11: a failed cycle is made good by a later cycle whose queries are all
\* answered: every step that ends such a cycle is a C11_AnsweredStep.
C11_LaterCycleClearsError == [][C11_AnsweredStep]_vars

\* C12, one step: when an await of a cycle whose effect has been torn down
\* returns, the task that was suspended on it issues no further query: it is
\* not left suspended on a getLogs or a getBlock call.
C12_TornDownStep ==
    \A c \in Cycles, g \in Games :
        (/\ InFlight(c)
         /\ ~Live(c)
         /\ cycles'[c].task[g] # cycles[c].task[g])
        => cycles'[c].task[g].pc \notin {"getLogs", "getBlock"}

\* C12: the liveness flag is checked after every suspension point, so a
\* pending cycle of a torn-down view issues no further getLogs or getBlock
\* query: every step is a C12_TornDownStep.
C12_TornDownCycleIssuesNoQuery == [][C12_TornDownStep]_vars

\* C13: in the player view, whenever a wallet is connected, every event held
\* in `events` has the connected account as its player, compared without
\* regard to case.
C13_EventsOfConnectedAccount ==
    (view = "player" /\ isConnected)
        => \A k \in 1..Len(events) : SamePlayer(events[k].player, currentAccount)

====
